---- MODULE Spec2Model ----
(***************************************************************************)
(* Save/restore pipelines of src/custom/cache.ts: restoreCache,            *)
(* restoreCacheSync, saveCache and saveCacheSync.  Every invocation is a   *)
(* process whose steps are the code segments between two collaborator      *)
(* calls; a collaborator (remote cache client, archive codec, external     *)
(* archiver process, file system) answers nondeterministically: it returns *)
(* or it raises.                                                           *)
(***************************************************************************)
EXTENDS Integers, Sequences, FiniteSets, TLC

(***************************************************************************)
(* Program constants and bounds of the model.                              *)
(***************************************************************************)
MaxKeyLength == 512
MaxKeys == 10

\* number of invocations that exist (Spec runs one of them, invocation 1;
\* SpecConc runs them all)
NumProcs == 2
\* how many keys past the limit of MaxKeys a key list may hold
MaxExtraKeys == 1
\* largest archive size in bytes a file on disk may have
MaxSize == 1

Procs == 1..NumProcs
\* the invocation that Spec runs
MainProcs == {p \in Procs : \A q \in Procs : p <= q}
DirIds == 1..NumProcs
\* the sizes an archive file may have: empty, or the largest size
Sizes == {0, MaxSize}
NoFile == 0 - 1
\* let archivePath = "": the empty string, no file of any directory
NoPath == 0

(***************************************************************************)
(* Strings.  A key is a JavaScript string, kept run-length encoded: a      *)
(* sequence of runs <<character, count>>, so that keys around the limit of *)
(* 512 characters stay small values.  The characters used are the letters  *)
(* a, b and c, the comma and the line feed.                                *)
(***************************************************************************)
Run(ch, n) == <<ch, n>>

RECURSIVE StrLen(_)
\* key.length
StrLen(s) == IF s = <<>> THEN 0 ELSE s[1][2] + StrLen(Tail(s))

RECURSIVE MatchNoComma(_)
\* /^[^,]*$/.test(s): [^,]* consumes every run of a character other than the
\* comma (line terminators included), and $ must then be at the end of input
MatchNoComma(s) ==
    IF s = <<>> THEN TRUE
    ELSE IF s[1][2] = 0 THEN MatchNoComma(Tail(s))
    ELSE IF s[1][1] = "," THEN FALSE
    ELSE MatchNoComma(Tail(s))

(***************************************************************************)
(* Values and errors.                                                      *)
(***************************************************************************)
Undefined == [t |-> "undefined"]
Str(s) == [t |-> "string", s |-> s]
Num(n) == [t |-> "number", n |-> n]

ValidationError == "ValidationError"
ReserveCacheError == "ReserveCacheError"
PlainError == "Error"
ErrorNames == {PlainError, ReserveCacheError, ValidationError}

\* an outcome of a call: nothing yet, a returned value or a thrown error
Running == [kind |-> "running"]
Returned(v) == [kind |-> "return", val |-> v]
Thrown(name) == [kind |-> "throw", name |-> name]

(***************************************************************************)
(* checkPaths and checkKey: "ok" or the name of the error thrown.          *)
(***************************************************************************)
checkPaths_AcceptsEmpty(paths) ==
    IF paths.isNull THEN ValidationError ELSE "ok"

checkPaths(paths) ==
    IF paths.isNull \/ Len(paths.list) = 0 THEN ValidationError ELSE "ok"

checkKey_OffByOne(key) ==
    IF StrLen(key) >= MaxKeyLength THEN ValidationError
    ELSE IF ~MatchNoComma(key) THEN ValidationError
    ELSE "ok"

checkKey(key) ==
    IF StrLen(key) > MaxKeyLength THEN ValidationError
    ELSE IF ~MatchNoComma(key) THEN ValidationError
    ELSE "ok"

(***************************************************************************)
(* Inputs of a call.                                                       *)
(***************************************************************************)
K1 == <<Run("a", 1)>>
K2 == <<Run("b", 1)>>
K3 == <<Run("c", 1)>>

ValidKeyPool ==
    { <<>>, K1, K2, <<Run("\n", 1)>>,
      <<Run("a", MaxKeyLength - 1)>>,
      <<Run("a", MaxKeyLength)>>,
      <<Run("a", MaxKeyLength - 1), Run("b", 1)>> }

InvalidKeyPool ==
    { <<Run("a", MaxKeyLength + 1)>>,
      <<Run("a", MaxKeyLength), Run("b", 1)>>,
      <<Run(",", 1)>>,
      <<Run("a", 1), Run(",", 1), Run("b", 1)>>,
      <<Run("a", 1), Run("\n", 1), Run(",", 1)>>,
      <<Run("a", MaxKeyLength - 1), Run(",", 1)>>,
      <<Run("a", MaxKeyLength), Run(",", 1)>> }

KeyPool == ValidKeyPool \cup InvalidKeyPool

\* key lists [primaryKey, ...restoreKeys]: short ones over the whole pool, and
\* lists of every length up to past the limit whose last key varies
ShortKeyLists ==
    { <<k>> : k \in KeyPool } \cup
    { <<k, K1>> : k \in KeyPool } \cup { <<K1, k>> : k \in KeyPool }

LongKeyLists ==
    { [j \in 1..n |-> IF j = n THEN k ELSE K1] :
        n \in 3..(MaxKeys + MaxExtraKeys),
        k \in {K2, <<Run("a", MaxKeyLength + 1)>>, <<Run(",", 1)>>} }

\* lists of three distinct keys, for the fallback among them
FallbackKeyLists ==
    { l \in {<<k1, k2, k3>> : k1, k2, k3 \in {K1, K2, K3}} :
        \A i, j \in 1..3 : l[i] = l[j] => i = j }

KeyLists == ShortKeyLists \cup LongKeyLists \cup FallbackKeyLists

PathNames == {"p1", "p2"}
PathsArgs ==
    { [isNull |-> TRUE, list |-> <<>>],
      [isNull |-> FALSE, list |-> <<>>],
      [isNull |-> FALSE, list |-> <<"p1">>],
      [isNull |-> FALSE, list |-> <<"p1", "p2">>] }

\* customCompression: "" is falsy; an omitted argument takes the default "none"
CustomCompressions == {"none", "", "lz4"}
Platforms == {"linux", "win32"}

ArchiveFunctions == {"restoreCache", "saveCache"}
RestoreFunctions == {"restoreCache", "restoreCacheSync"}
SaveFunctions == {"saveCache", "saveCacheSync"}

NoArgs ==
    [paths |-> [isNull |-> TRUE, list |-> <<>>], keys |-> <<>>,
     lookupOnly |-> FALSE, customCompression |-> "none",
     platform |-> "linux", isDebug |-> FALSE, existing |-> {}]

(***************************************************************************)
(* State.                                                                  *)
(***************************************************************************)
VARIABLES
    inv,    \* [Procs -> the state of an invocation, a record]:
            \*   pc              the step the invocation is at
            \*   fn              the function called, "" before the call
            \*   args            arguments and environment of the call
            \*   archivePath     NoPath, or the temp directory of the archive file
            \*   lookupKeys      the keys the lookup was given
            \*   cacheEntry      the entry the lookup returned
            \*   cachePaths      the resolved paths (save)
            \*   archiveFileSize the measured size of the archive
            \*   cacheId         the value save returns
            \*   completion      how try/catch completed, pending the finally
            \*   outcome         what the caller got
            \*   trace           the collaborator calls made, in order
    dirs,   \* the temp directories that exist
    disk,   \* [DirIds -> size of the archive file in that directory, or NoFile]
    store   \* the remote cache store: known or not, and when it is known the
            \* keys that have an entry and the keys that are reserved

vars == <<inv, dirs, disk, store>>

\* a collaborator call: its name, its result ("ok", or the name of the error it
\* raised), and the archive path or the size it was given (0 when it has none)
Call(name, res, arg) == [call |-> name, res |-> res, arg |-> arg]

NoEntry == [found |-> FALSE, archiveLocation |-> FALSE, cacheKey |-> <<>>]
Entry(loc, key) == [found |-> TRUE, archiveLocation |-> loc, cacheKey |-> key]

Idle ==
    [pc |-> "idle", fn |-> "", args |-> NoArgs, archivePath |-> NoPath,
     lookupKeys |-> <<>>, cacheEntry |-> NoEntry, cachePaths |-> <<>>,
     archiveFileSize |-> 0,
     cacheId |-> 0, completion |-> Running, outcome |-> Running,
     trace |-> <<>>]

\* a remote store of which nothing is known: its lookups and uploads answer
\* in any way
AnyStore == [known |-> FALSE, entries |-> {}, reserved |-> {}]
\* a remote store that matches first-match-wins over the keys that have an
\* entry, and grants the reservation of a key once
KnownStore(keys) == [known |-> TRUE, entries |-> keys, reserved |-> keys]

Init ==
    /\ inv = [p \in Procs |-> Idle]
    /\ dirs = {}
    /\ disk = [d \in DirIds |-> NoFile]
    /\ store = AnyStore

Range(f) == {f[i] : i \in DOMAIN f}

\* a truthy JavaScript string
Truthy(str) == str # ""

\* invocation p goes on as record r
Becomes(p, r) == inv' = [inv EXCEPT ![p] = r]

\* the file system is left alone
FsUnchanged == UNCHANGED <<dirs, disk>>

(***************************************************************************)
(* The error dispatch of the catch clauses.                                *)
(***************************************************************************)
restoreCatch_RethrowsAll(name) == Thrown(name)

\* restoreCache 189-196, restoreCacheSync 252-260, then return undefined
restoreCatch(name) ==
    IF name = ValidationError THEN Thrown(name) ELSE Returned(Undefined)

saveCatch_RethrowsReserve(name, cacheId) ==
    IF name \in {ValidationError, ReserveCacheError} THEN Thrown(name)
    ELSE Returned(Num(cacheId))

\* saveCache 373-381, saveCacheSync 425-433, then return cacheId
saveCatch(name, cacheId) ==
    IF name = ValidationError THEN Thrown(name) ELSE Returned(Num(cacheId))

(***************************************************************************)
(* Validation, the synchronous head of each function.                      *)
(***************************************************************************)
restoreValidation_NoKeyLimit(a) ==
    IF checkPaths(a.paths) # "ok" THEN ValidationError
    ELSE IF \E i \in DOMAIN a.keys : checkKey(a.keys[i]) # "ok"
         THEN ValidationError
    ELSE "ok"

\* restoreCache 84-99
restoreValidation(a) ==
    IF checkPaths(a.paths) # "ok" THEN ValidationError
    ELSE IF Len(a.keys) > MaxKeys THEN ValidationError
    ELSE IF \E i \in DOMAIN a.keys : checkKey(a.keys[i]) # "ok"
         THEN ValidationError
    ELSE "ok"

\* restoreCacheSync 224-228, saveCache 286-287, saveCacheSync 406-407
keyValidation(a) ==
    IF checkPaths(a.paths) # "ok" THEN ValidationError
    ELSE checkKey(a.keys[1])

(***************************************************************************)
(* restoreCache (76-207).                                                  *)
(***************************************************************************)
RestoreArgs ==
    [paths : PathsArgs, keys : KeyLists, lookupOnly : BOOLEAN,
     customCompression : CustomCompressions, platform : Platforms,
     isDebug : BOOLEAN, existing : {{}}]

\* the keys an entry found for the key list may carry: a key of the list, or
\* a stored key that a restore key is a prefix of
EntryKeys(keys) == Range(keys) \cup {K3}

\* the arguments primaryKey and restoreKeys of a call
primaryKey(a) == Head(a.keys)
restoreKeys(a) == Tail(a.keys)

resolvedKeys_Reversed(a) == restoreKeys(a) \o <<primaryKey(a)>>

\* 86-87: keys = [primaryKey, ...restoreKeys]
resolvedKeys(a) == <<primaryKey(a)>> \o restoreKeys(a)

RECURSIVE storeLookup(_, _)
\* the lookup of a known store: the entry of the first key of the list, in
\* order, that has one
storeLookup(keys, entries) ==
    IF keys = <<>> THEN NoEntry
    ELSE IF Head(keys) \in entries THEN Entry(TRUE, Head(keys))
    ELSE storeLookup(Tail(keys), entries)

\* what the lookup of the store may return for a key list
LookupAnswers(keys) ==
    IF store.known THEN {storeLookup(keys, store.entries)}
    ELSE {NoEntry} \cup
         {Entry(loc, k) : loc \in BOOLEAN, k \in EntryKeys(keys)}

afterLookup_IgnoresLookupOnly(entry, lookupOnly) ==
    IF ~entry.archiveLocation THEN "miss" ELSE "transfer"

afterLookup_NoLocationTest(entry, lookupOnly) ==
    IF ~entry.found THEN "miss"
    ELSE IF lookupOnly THEN "lookupOnly"
    ELSE "transfer"

\* 109-117, 233-241: what follows the lookup: a miss when it gave no entry or
\* one without archiveLocation, else the hit of a lookup-only call, else the
\* transfer
afterLookup(entry, lookupOnly) ==
    IF ~entry.archiveLocation THEN "miss"
    ELSE IF lookupOnly THEN "lookupOnly"
    ELSE "transfer"

\* 84-99: the call, and the validation of the paths and of the keys
restoreCache_call(p, a) ==
    /\ inv[p].pc = "idle"
    /\ UNCHANGED store
    /\ LET r == [inv[p] EXCEPT !.fn = "restoreCache", !.args = a] IN
       IF restoreValidation(a) = "ok"
       THEN Becomes(p, [r EXCEPT !.pc = "r101"])
       ELSE Becomes(p, [r EXCEPT !.pc = "done",
                                 !.outcome = Thrown(restoreValidation(a))])
    /\ FsUnchanged

\* a call of restoreCache with any of the inputs
restoreCache_validate(p) ==
    /\ inv[p].pc = "idle"
    /\ \E a \in RestoreArgs : restoreCache_call(p, a)

\* 101-102: await getCompressionMethod(customCompression), a resolution that
\* is deterministic and free of side effects; let archivePath = ""
restoreCache_getCompressionMethod(p) ==
    /\ inv[p].pc = "r101"
    /\ UNCHANGED store
    /\ Becomes(p, [inv[p] EXCEPT
         !.pc = "r105",
         !.archivePath = NoPath,
         !.trace = Append(@, Call("getCompressionMethod", "ok", 0))])
    /\ FsUnchanged

\* 105-117: the lookup, the miss and the lookup-only hit
restoreCache_getCacheEntry(p) ==
    /\ inv[p].pc = "r105"
    /\ UNCHANGED store
    /\ \/ \E entry \in LookupAnswers(resolvedKeys(inv[p].args)) :
            LET r == [inv[p] EXCEPT
                        !.lookupKeys = resolvedKeys(inv[p].args),
                        !.cacheEntry = entry,
                        !.trace = Append(@, Call("getCacheEntry", "ok", 0))]
            IN  CASE afterLookup(entry, inv[p].args.lookupOnly) = "miss" ->
                       Becomes(p, [r EXCEPT !.pc = "r200",
                                            !.completion = Returned(Undefined)])
                  [] afterLookup(entry, inv[p].args.lookupOnly) = "lookupOnly" ->
                       Becomes(p, [r EXCEPT
                                     !.pc = "r200",
                                     !.completion = Returned(Str(entry.cacheKey))])
                  [] OTHER ->
                       Becomes(p, [r EXCEPT !.pc = "r120"])
       \/ \E e \in ErrorNames :
            Becomes(p, [inv[p] EXCEPT
              !.pc = "r200",
              !.lookupKeys = resolvedKeys(inv[p].args),
              !.completion = restoreCatch(e),
              !.trace = Append(@, Call("getCacheEntry", e, 0))])
    /\ FsUnchanged

\* the directory utils.createTempDirectory makes: one that does not exist yet
FreshDir_Shared == CHOOSE d \in DirIds : TRUE

FreshDir == CHOOSE d \in DirIds : d \notin dirs

\* 119-123: archivePath = join(await createTempDirectory(), file name)
restoreCache_createTempDirectory(p) ==
    /\ inv[p].pc = "r120"
    /\ UNCHANGED store
    /\ \/ /\ Becomes(p, [inv[p] EXCEPT
               !.pc = "r126",
               !.archivePath = FreshDir,
               !.trace = Append(@, Call("createTempDirectory", "ok", FreshDir))])
          /\ dirs' = dirs \cup {FreshDir}
          /\ UNCHANGED disk
       \/ /\ Becomes(p, [inv[p] EXCEPT
               !.pc = "r200",
               !.completion = restoreCatch(PlainError),
               !.trace = Append(@, Call("createTempDirectory", PlainError, 0))])
          /\ FsUnchanged

extractDispatch_NoneIsInternal(a) ==
    IF a.customCompression \in {"", "none"} THEN "r184"
    ELSE IF a.platform # "win32" THEN "r152"
    ELSE "r157"

\* 148, 156, 183: which way the archive is extracted
extractDispatch(a) ==
    IF Truthy(a.customCompression) /\ a.platform # "win32" THEN "r152"
    ELSE IF Truthy(a.customCompression) /\ a.platform = "win32" THEN "r157"
    ELSE "r184"

restoreCache_downloadCache_FailureIgnored(p) ==
    /\ inv[p].pc = "r126"
    /\ UNCHANGED store
    /\ LET d == inv[p].archivePath IN
       \/ /\ \E size \in Sizes : disk' = [disk EXCEPT ![d] = size]
          /\ Becomes(p, [inv[p] EXCEPT
               !.pc = "r140",
               !.trace = Append(@, Call("downloadCache", "ok", d))])
       \/ /\ \E left \in Sizes : disk' = [disk EXCEPT ![d] = left]
          /\ \E e \in ErrorNames :
               Becomes(p, [inv[p] EXCEPT
                 !.pc = "r140",
                 !.trace = Append(@, Call("downloadCache", e, d))])
    /\ UNCHANGED dirs

\* 126-138: the download writes the archive file; a failed one may leave a
\* part of it
restoreCache_downloadCache(p) ==
    /\ inv[p].pc = "r126"
    /\ UNCHANGED store
    /\ LET d == inv[p].archivePath IN
       \/ /\ \E size \in Sizes : disk' = [disk EXCEPT ![d] = size]
          /\ Becomes(p, [inv[p] EXCEPT
               !.pc = IF inv[p].args.isDebug
                         /\ ~Truthy(inv[p].args.customCompression)
                      THEN "r136" ELSE "r140",
               !.trace = Append(@, Call("downloadCache", "ok", d))])
       \/ /\ \E left \in {NoFile} \cup Sizes : disk' = [disk EXCEPT ![d] = left]
          /\ \E e \in ErrorNames :
               Becomes(p, [inv[p] EXCEPT
                 !.pc = "r200",
                 !.completion = restoreCatch(e),
                 !.trace = Append(@, Call("downloadCache", e, d))])
    /\ UNCHANGED dirs

\* 136: await listTar(archivePath, compressionMethod), in debug mode
restoreCache_listTar(p) ==
    /\ inv[p].pc = "r136"
    /\ UNCHANGED store
    /\ \/ Becomes(p, [inv[p] EXCEPT
            !.pc = "r140",
            !.trace = Append(@, Call("listTar", "ok", inv[p].archivePath))])
       \/ Becomes(p, [inv[p] EXCEPT
            !.pc = "r200",
            !.completion = restoreCatch(PlainError),
            !.trace = Append(@, Call("listTar", PlainError, inv[p].archivePath))])
    /\ FsUnchanged

\* 140-147: utils.getArchiveFileSizeInBytes(archivePath), the size of the file
restoreCache_getArchiveFileSizeInBytes(p) ==
    /\ inv[p].pc = "r140"
    /\ UNCHANGED store
    /\ LET d == inv[p].archivePath IN
       \/ /\ disk[d] # NoFile
          /\ Becomes(p, [inv[p] EXCEPT
               !.pc = extractDispatch(inv[p].args),
               !.archiveFileSize = disk[d],
               !.trace = Append(@, Call("getArchiveFileSizeInBytes", "ok", d))])
       \/ Becomes(p, [inv[p] EXCEPT
            !.pc = "r200",
            !.completion = restoreCatch(PlainError),
            !.trace = Append(@, Call("getArchiveFileSizeInBytes", PlainError, d))])
    /\ FsUnchanged

\* 157-158: await getTarPath(), custom compression on Windows
restoreCache_getTarPath(p) ==
    /\ inv[p].pc = "r157"
    /\ UNCHANGED store
    /\ \/ Becomes(p, [inv[p] EXCEPT
            !.pc = "r179",
            !.trace = Append(@, Call("getTarPath", "ok", 0))])
       \/ Becomes(p, [inv[p] EXCEPT
            !.pc = "r200",
            !.completion = restoreCatch(PlainError),
            !.trace = Append(@, Call("getTarPath", PlainError, 0))])
    /\ FsUnchanged

\* 149-155 and 160-182: execSync(command), the external archiver; then 186-188
restoreCache_execSync(p) ==
    /\ inv[p].pc \in {"r152", "r179"}
    /\ UNCHANGED store
    /\ \/ Becomes(p, [inv[p] EXCEPT
            !.pc = "r200",
            !.completion = Returned(Str(inv[p].cacheEntry.cacheKey)),
            !.trace = Append(@, Call("execSync", "ok", inv[p].archivePath))])
       \/ Becomes(p, [inv[p] EXCEPT
            !.pc = "r200",
            !.completion = restoreCatch(PlainError),
            !.trace = Append(@, Call("execSync", PlainError, inv[p].archivePath))])
    /\ FsUnchanged

\* 184: await extractTar(archivePath, compressionMethod); then 186-188
restoreCache_extractTar(p) ==
    /\ inv[p].pc = "r184"
    /\ UNCHANGED store
    /\ \/ Becomes(p, [inv[p] EXCEPT
            !.pc = "r200",
            !.completion = Returned(Str(inv[p].cacheEntry.cacheKey)),
            !.trace = Append(@, Call("extractTar", "ok", inv[p].archivePath))])
       \/ Becomes(p, [inv[p] EXCEPT
            !.pc = "r200",
            !.completion = restoreCatch(PlainError),
            !.trace = Append(@, Call("extractTar", PlainError, inv[p].archivePath))])
    /\ FsUnchanged

restoreCache_finally_UnlinkRaises(p) ==
    /\ inv[p].pc = "r200"
    /\ UNCHANGED store
    /\ LET d == inv[p].archivePath IN
       \/ /\ d # NoPath
          /\ disk[d] # NoFile
          /\ disk' = [disk EXCEPT ![d] = NoFile]
          /\ Becomes(p, [inv[p] EXCEPT
               !.pc = "done",
               !.outcome = inv[p].completion,
               !.trace = Append(@, Call("unlinkFile", "ok", d))])
       \/ /\ UNCHANGED disk
          /\ Becomes(p, [inv[p] EXCEPT
               !.pc = "done",
               !.outcome = Thrown(PlainError),
               !.trace = Append(@, Call("unlinkFile", PlainError, d))])
    /\ UNCHANGED dirs

restoreCache_finally_NoUnlink(p) ==
    /\ inv[p].pc = "r200"
    /\ UNCHANGED store
    /\ Becomes(p, [inv[p] EXCEPT !.pc = "done",
                                 !.outcome = inv[p].completion])
    /\ FsUnchanged

\* 197-206: finally, await utils.unlinkFile(archivePath) with its failure
\* caught; then the invocation completes as try/catch did.  The unlink of a
\* path that names no file fails; that of a file may fail too.
restoreCache_finally(p) ==
    /\ inv[p].pc = "r200"
    /\ UNCHANGED store
    /\ LET d == inv[p].archivePath IN
       \/ /\ d # NoPath
          /\ disk[d] # NoFile
          /\ disk' = [disk EXCEPT ![d] = NoFile]
          /\ Becomes(p, [inv[p] EXCEPT
               !.pc = "done",
               !.outcome = inv[p].completion,
               !.trace = Append(@, Call("unlinkFile", "ok", d))])
       \/ /\ UNCHANGED disk
          /\ Becomes(p, [inv[p] EXCEPT
               !.pc = "done",
               !.outcome = inv[p].completion,
               !.trace = Append(@, Call("unlinkFile", PlainError, d))])
    /\ UNCHANGED dirs

\* the steps of restoreCache after its validation
restoreCache_steps(p) ==
    \/ restoreCache_getCompressionMethod(p)
    \/ restoreCache_getCacheEntry(p)
    \/ restoreCache_createTempDirectory(p)
    \/ restoreCache_downloadCache(p)
    \/ restoreCache_listTar(p)
    \/ restoreCache_getArchiveFileSizeInBytes(p)
    \/ restoreCache_getTarPath(p)
    \/ restoreCache_execSync(p)
    \/ restoreCache_extractTar(p)
    \/ restoreCache_finally(p)

restoreCache(p) ==
    \/ restoreCache_validate(p)
    \/ restoreCache_steps(p)

(***************************************************************************)
(* restoreCacheSync (219-263).                                             *)
(***************************************************************************)
RestoreSyncArgs ==
    [paths : PathsArgs, keys : {<<k>> : k \in KeyPool}, lookupOnly : BOOLEAN,
     customCompression : {"none"}, platform : {"linux"},
     isDebug : {FALSE}, existing : {{}}]

\* 224-228: the call, and the validation of the paths and of the primary key
restoreCacheSync_call(p, a) ==
    /\ inv[p].pc = "idle"
    /\ UNCHANGED store
    /\ LET r == [inv[p] EXCEPT !.fn = "restoreCacheSync", !.args = a] IN
       IF keyValidation(a) = "ok"
       THEN Becomes(p, [r EXCEPT !.pc = "rs232"])
       ELSE Becomes(p, [r EXCEPT !.pc = "done",
                                 !.outcome = Thrown(keyValidation(a))])
    /\ FsUnchanged

\* a call of restoreCacheSync with any of the inputs
restoreCacheSync_validate(p) ==
    /\ inv[p].pc = "idle"
    /\ \E a \in RestoreSyncArgs : restoreCacheSync_call(p, a)

\* 232-241: the lookup of the primary key, the miss and the lookup-only hit
restoreCacheSync_getCacheEntrySync(p) ==
    /\ inv[p].pc = "rs232"
    /\ UNCHANGED store
    /\ \/ \E entry \in LookupAnswers(<<primaryKey(inv[p].args)>>) :
            LET r == [inv[p] EXCEPT
                        !.lookupKeys = <<primaryKey(inv[p].args)>>,
                        !.cacheEntry = entry,
                        !.trace = Append(@, Call("getCacheEntrySync", "ok", 0))]
            IN  CASE afterLookup(entry, inv[p].args.lookupOnly) = "miss" ->
                       Becomes(p, [r EXCEPT !.pc = "done",
                                            !.outcome = Returned(Undefined)])
                  [] afterLookup(entry, inv[p].args.lookupOnly) = "lookupOnly" ->
                       Becomes(p, [r EXCEPT
                                     !.pc = "done",
                                     !.outcome = Returned(Str(entry.cacheKey))])
                  [] OTHER ->
                       Becomes(p, [r EXCEPT !.pc = "rs244"])
       \/ \E e \in ErrorNames :
            Becomes(p, [inv[p] EXCEPT
              !.pc = "done",
              !.lookupKeys = <<primaryKey(inv[p].args)>>,
              !.outcome = restoreCatch(e),
              !.trace = Append(@, Call("getCacheEntrySync", e, 0))])
    /\ FsUnchanged

restoreCacheSync_downloadCacheSync_ViaArchive(p) ==
    /\ inv[p].pc = "rs244"
    /\ UNCHANGED store
    /\ dirs' = dirs \cup {FreshDir}
    /\ disk' = [disk EXCEPT ![FreshDir] = 0]
    /\ Becomes(p, [inv[p] EXCEPT
         !.pc = "done",
         !.archivePath = FreshDir,
         !.outcome = Returned(Str(inv[p].cacheEntry.cacheKey)),
         !.trace = Append(@, Call("downloadCache", "ok", FreshDir))])

\* 244-251: await downloadCacheSync(archiveLocation, paths)
restoreCacheSync_downloadCacheSync(p) ==
    /\ inv[p].pc = "rs244"
    /\ UNCHANGED store
    /\ \/ Becomes(p, [inv[p] EXCEPT
            !.pc = "done",
            !.outcome = Returned(Str(inv[p].cacheEntry.cacheKey)),
            !.trace = Append(@, Call("downloadCacheSync", "ok", 0))])
       \/ \E e \in ErrorNames :
            Becomes(p, [inv[p] EXCEPT
              !.pc = "done",
              !.outcome = restoreCatch(e),
              !.trace = Append(@, Call("downloadCacheSync", e, 0))])
    /\ FsUnchanged

\* the steps of restoreCacheSync after its validation
restoreCacheSync_steps(p) ==
    \/ restoreCacheSync_getCacheEntrySync(p)
    \/ restoreCacheSync_downloadCacheSync(p)

restoreCacheSync(p) ==
    \/ restoreCacheSync_validate(p)
    \/ restoreCacheSync_steps(p)

(***************************************************************************)
(* saveCache (278-392).                                                    *)
(***************************************************************************)
SaveArgs ==
    [paths : PathsArgs, keys : {<<k>> : k \in KeyPool}, lookupOnly : {FALSE},
     customCompression : CustomCompressions, platform : Platforms,
     isDebug : BOOLEAN, existing : SUBSET PathNames]

\* the upload of a known store: the reservation of a key is granted to one
\* saver, and the others are rejected with a ReserveCacheError
uploadGranted(key) == store.known => key \notin store.reserved
uploadRejected(key) == store.known => key \in store.reserved
\* the store after an upload that returned: the key is reserved and has an entry
afterUpload(key) ==
    IF store.known
    THEN [store EXCEPT !.reserved = @ \cup {key}, !.entries = @ \cup {key}]
    ELSE store
\* the stores after an upload that raised e: an upload that failed past its
\* reservation keeps the key reserved
afterFailedUpload(key, e) ==
    IF store.known /\ e # ReserveCacheError
    THEN {store, [store EXCEPT !.reserved = @ \cup {key}]}
    ELSE {store}

cacheSize_Zero(r) == 0

\* 368: cacheSize: archiveFileSize
cacheSize(r) == r.archiveFileSize

\* utils.resolvePaths(paths): the paths that exist
resolvePaths(a) == SelectSeq(a.paths.list, LAMBDA x : x \in a.existing)

noPathsResolved_Never(cachePaths) == FALSE

\* 297, 415: cachePaths.length === 0
noPathsResolved(cachePaths) == Len(cachePaths) = 0

\* 313, 320, 356: which way the archive is built
createDispatch(a) ==
    IF Truthy(a.customCompression) /\ a.platform # "win32" THEN "s316"
    ELSE IF Truthy(a.customCompression) /\ a.platform = "win32" THEN "s322"
    ELSE "s357"

\* 285-287: the call, and the validation of the paths and of the key
saveCache_call(p, a) ==
    /\ inv[p].pc = "idle"
    /\ UNCHANGED store
    /\ LET r == [inv[p] EXCEPT !.fn = "saveCache", !.args = a] IN
       IF keyValidation(a) = "ok"
       THEN Becomes(p, [r EXCEPT !.pc = "s289"])
       ELSE Becomes(p, [r EXCEPT !.pc = "done",
                                 !.outcome = Thrown(keyValidation(a))])
    /\ FsUnchanged

\* a call of saveCache with any of the inputs
saveCache_validate(p) ==
    /\ inv[p].pc = "idle"
    /\ \E a \in SaveArgs : saveCache_call(p, a)

\* 289-290: await getCompressionMethod(customCompression); let cacheId = -1
saveCache_getCompressionMethod(p) ==
    /\ inv[p].pc = "s289"
    /\ UNCHANGED store
    /\ Becomes(p, [inv[p] EXCEPT
         !.pc = "s293",
         !.cacheId = 0 - 1,
         !.trace = Append(@, Call("getCompressionMethod", "ok", 0))])
    /\ FsUnchanged

\* 293-301: await utils.resolvePaths(paths); no path resolved throws an Error
saveCache_resolvePaths(p) ==
    /\ inv[p].pc = "s293"
    /\ UNCHANGED store
    /\ \/ LET r == [inv[p] EXCEPT
                      !.cachePaths = resolvePaths(inv[p].args),
                      !.trace = Append(@, Call("resolvePaths", "ok", 0))]
          IN  IF noPathsResolved(r.cachePaths)
              THEN Becomes(p, [r EXCEPT !.pc = "done",
                                        !.outcome = Thrown(PlainError)])
              ELSE Becomes(p, [r EXCEPT !.pc = "s303"])
       \/ Becomes(p, [inv[p] EXCEPT
            !.pc = "done",
            !.outcome = Thrown(PlainError),
            !.trace = Append(@, Call("resolvePaths", PlainError, 0))])
    /\ FsUnchanged

\* 303-309: await utils.createTempDirectory(), outside the try; archivePath
saveCache_createTempDirectory(p) ==
    /\ inv[p].pc = "s303"
    /\ UNCHANGED store
    /\ \/ /\ Becomes(p, [inv[p] EXCEPT
               !.pc = createDispatch(inv[p].args),
               !.archivePath = FreshDir,
               !.trace = Append(@, Call("createTempDirectory", "ok", FreshDir))])
          /\ dirs' = dirs \cup {FreshDir}
          /\ UNCHANGED disk
       \/ /\ Becomes(p, [inv[p] EXCEPT
               !.pc = "done",
               !.outcome = Thrown(PlainError),
               !.trace = Append(@, Call("createTempDirectory", PlainError, 0))])
          /\ FsUnchanged

\* 322-323: await getTarPath(), custom compression on Windows
saveCache_getTarPath(p) ==
    /\ inv[p].pc = "s322"
    /\ UNCHANGED store
    /\ \/ Becomes(p, [inv[p] EXCEPT
            !.pc = "s351",
            !.trace = Append(@, Call("getTarPath", "ok", 0))])
       \/ Becomes(p, [inv[p] EXCEPT
            !.pc = "s385",
            !.completion = saveCatch(PlainError, inv[p].cacheId),
            !.trace = Append(@, Call("getTarPath", PlainError, 0))])
    /\ FsUnchanged

\* 314-319 and 326-354: execSync(command), the external archiver writes the
\* archive file; a failed one may leave a part of it
saveCache_execSync(p) ==
    /\ inv[p].pc \in {"s316", "s351"}
    /\ UNCHANGED store
    /\ LET d == inv[p].archivePath IN
       \/ /\ \E size \in Sizes : disk' = [disk EXCEPT ![d] = size]
          /\ Becomes(p, [inv[p] EXCEPT
               !.pc = "s362",
               !.trace = Append(@, Call("execSync", "ok", d))])
       \/ /\ \E left \in {NoFile} \cup Sizes : disk' = [disk EXCEPT ![d] = left]
          /\ Becomes(p, [inv[p] EXCEPT
               !.pc = "s385",
               !.completion = saveCatch(PlainError, inv[p].cacheId),
               !.trace = Append(@, Call("execSync", PlainError, d))])
    /\ UNCHANGED dirs

\* 357-358: await createTar(archiveFolder, cachePaths, compressionMethod)
saveCache_createTar(p) ==
    /\ inv[p].pc = "s357"
    /\ UNCHANGED store
    /\ LET d == inv[p].archivePath IN
       \/ /\ \E size \in Sizes : disk' = [disk EXCEPT ![d] = size]
          /\ Becomes(p, [inv[p] EXCEPT
               !.pc = IF inv[p].args.isDebug THEN "s359" ELSE "s362",
               !.trace = Append(@, Call("createTar", "ok", d))])
       \/ /\ \E left \in {NoFile} \cup Sizes : disk' = [disk EXCEPT ![d] = left]
          /\ Becomes(p, [inv[p] EXCEPT
               !.pc = "s385",
               !.completion = saveCatch(PlainError, inv[p].cacheId),
               !.trace = Append(@, Call("createTar", PlainError, d))])
    /\ UNCHANGED dirs

\* 359: await listTar(archivePath, compressionMethod), in debug mode
saveCache_listTar(p) ==
    /\ inv[p].pc = "s359"
    /\ UNCHANGED store
    /\ \/ Becomes(p, [inv[p] EXCEPT
            !.pc = "s362",
            !.trace = Append(@, Call("listTar", "ok", inv[p].archivePath))])
       \/ Becomes(p, [inv[p] EXCEPT
            !.pc = "s385",
            !.completion = saveCatch(PlainError, inv[p].cacheId),
            !.trace = Append(@, Call("listTar", PlainError, inv[p].archivePath))])
    /\ FsUnchanged

\* 362-363: utils.getArchiveFileSizeInBytes(archivePath), the size of the file
saveCache_getArchiveFileSizeInBytes(p) ==
    /\ inv[p].pc = "s362"
    /\ UNCHANGED store
    /\ LET d == inv[p].archivePath IN
       \/ /\ disk[d] # NoFile
          /\ Becomes(p, [inv[p] EXCEPT
               !.pc = "s365",
               !.archiveFileSize = disk[d],
               !.trace = Append(@, Call("getArchiveFileSizeInBytes", "ok", d))])
       \/ Becomes(p, [inv[p] EXCEPT
            !.pc = "s385",
            !.completion = saveCatch(PlainError, inv[p].cacheId),
            !.trace = Append(@, Call("getArchiveFileSizeInBytes", PlainError, d))])
    /\ FsUnchanged

\* 365-372: await cacheHttpClient.saveCache(key, paths, archivePath,
\* {..., cacheSize: archiveFileSize}); cacheId = 1
saveCache_saveCache(p) ==
    /\ inv[p].pc = "s365"
    /\ \/ /\ uploadGranted(inv[p].args.keys[1])
          /\ store' = afterUpload(inv[p].args.keys[1])
          /\ Becomes(p, [inv[p] EXCEPT
               !.pc = "s385",
               !.cacheId = 1,
               !.completion = Returned(Num(1)),
               !.trace = Append(@, Call("saveCache", "ok",
                                        cacheSize(inv[p])))])
       \/ \E e \in ErrorNames :
            /\ e = ReserveCacheError => uploadRejected(inv[p].args.keys[1])
            /\ \E st \in afterFailedUpload(inv[p].args.keys[1], e) : store' = st
            /\ Becomes(p, [inv[p] EXCEPT
                 !.pc = "s385",
                 !.completion = saveCatch(e, inv[p].cacheId),
                 !.trace = Append(@, Call("saveCache", e, cacheSize(inv[p])))])
    /\ FsUnchanged

saveCache_finally_RemovesDirectory(p) ==
    /\ inv[p].pc = "s385"
    /\ UNCHANGED store
    /\ LET d == inv[p].archivePath IN
       /\ disk' = [disk EXCEPT ![d] = NoFile]
       /\ dirs' = dirs \ {d}
       /\ Becomes(p, [inv[p] EXCEPT
            !.pc = "done",
            !.outcome = inv[p].completion,
            !.trace = Append(@, Call("unlinkFile", "ok", d))])

saveCache_finally_NoUnlink(p) ==
    /\ inv[p].pc = "s385"
    /\ UNCHANGED store
    /\ Becomes(p, [inv[p] EXCEPT !.pc = "done",
                                 !.outcome = inv[p].completion])
    /\ FsUnchanged

\* 382-391: finally, await utils.unlinkFile(archivePath) with its failure
\* caught; then the invocation completes as try/catch did
saveCache_finally(p) ==
    /\ inv[p].pc = "s385"
    /\ UNCHANGED store
    /\ LET d == inv[p].archivePath IN
       \/ /\ disk[d] # NoFile
          /\ disk' = [disk EXCEPT ![d] = NoFile]
          /\ Becomes(p, [inv[p] EXCEPT
               !.pc = "done",
               !.outcome = inv[p].completion,
               !.trace = Append(@, Call("unlinkFile", "ok", d))])
       \/ /\ UNCHANGED disk
          /\ Becomes(p, [inv[p] EXCEPT
               !.pc = "done",
               !.outcome = inv[p].completion,
               !.trace = Append(@, Call("unlinkFile", PlainError, d))])
    /\ UNCHANGED dirs

\* the steps of saveCache after its validation
saveCache_steps(p) ==
    \/ saveCache_getCompressionMethod(p)
    \/ saveCache_resolvePaths(p)
    \/ saveCache_createTempDirectory(p)
    \/ saveCache_getTarPath(p)
    \/ saveCache_execSync(p)
    \/ saveCache_createTar(p)
    \/ saveCache_listTar(p)
    \/ saveCache_getArchiveFileSizeInBytes(p)
    \/ saveCache_saveCache(p)
    \/ saveCache_finally(p)

saveCache(p) ==
    \/ saveCache_validate(p)
    \/ saveCache_steps(p)

(***************************************************************************)
(* saveCacheSync (401-436).                                                *)
(***************************************************************************)
SaveSyncArgs ==
    [paths : PathsArgs, keys : {<<k>> : k \in KeyPool}, lookupOnly : {FALSE},
     customCompression : {"none"}, platform : {"linux"},
     isDebug : {FALSE}, existing : SUBSET PathNames]

\* 405-409: the call, the validation of the paths and of the key; cacheId = -1
saveCacheSync_call(p, a) ==
    /\ inv[p].pc = "idle"
    /\ UNCHANGED store
    /\ LET r == [inv[p] EXCEPT !.fn = "saveCacheSync", !.args = a] IN
       IF keyValidation(a) = "ok"
       THEN Becomes(p, [r EXCEPT !.pc = "ss411", !.cacheId = 0 - 1])
       ELSE Becomes(p, [r EXCEPT !.pc = "done",
                                 !.outcome = Thrown(keyValidation(a))])
    /\ FsUnchanged

\* a call of saveCacheSync with any of the inputs
saveCacheSync_validate(p) ==
    /\ inv[p].pc = "idle"
    /\ \E a \in SaveSyncArgs : saveCacheSync_call(p, a)

\* 411-419: await utils.resolvePaths(paths); no path resolved throws an Error
saveCacheSync_resolvePaths(p) ==
    /\ inv[p].pc = "ss411"
    /\ UNCHANGED store
    /\ \/ LET r == [inv[p] EXCEPT
                      !.cachePaths = resolvePaths(inv[p].args),
                      !.trace = Append(@, Call("resolvePaths", "ok", 0))]
          IN  IF noPathsResolved(r.cachePaths)
              THEN Becomes(p, [r EXCEPT !.pc = "done",
                                        !.outcome = Thrown(PlainError)])
              ELSE Becomes(p, [r EXCEPT !.pc = "ss422"])
       \/ Becomes(p, [inv[p] EXCEPT
            !.pc = "done",
            !.outcome = Thrown(PlainError),
            !.trace = Append(@, Call("resolvePaths", PlainError, 0))])
    /\ FsUnchanged

\* 421-435: await cacheHttpClient.saveCacheSync(key, paths); cacheId = 1
saveCacheSync_saveCacheSync(p) ==
    /\ inv[p].pc = "ss422"
    /\ \/ /\ uploadGranted(inv[p].args.keys[1])
          /\ store' = afterUpload(inv[p].args.keys[1])
          /\ Becomes(p, [inv[p] EXCEPT
               !.pc = "done",
               !.cacheId = 1,
               !.outcome = Returned(Num(1)),
               !.trace = Append(@, Call("saveCacheSync", "ok", 0))])
       \/ \E e \in ErrorNames :
            /\ e = ReserveCacheError => uploadRejected(inv[p].args.keys[1])
            /\ \E st \in afterFailedUpload(inv[p].args.keys[1], e) : store' = st
            /\ Becomes(p, [inv[p] EXCEPT
                 !.pc = "done",
                 !.outcome = saveCatch(e, inv[p].cacheId),
                 !.trace = Append(@, Call("saveCacheSync", e, 0))])
    /\ FsUnchanged

\* the steps of saveCacheSync after its validation
saveCacheSync_steps(p) ==
    \/ saveCacheSync_resolvePaths(p)
    \/ saveCacheSync_saveCacheSync(p)

saveCacheSync(p) ==
    \/ saveCacheSync_validate(p)
    \/ saveCacheSync_steps(p)

(***************************************************************************)
(* One invocation, of any of the four functions, over all the inputs.      *)
(***************************************************************************)
Next ==
    \E p \in MainProcs :
        \/ restoreCache(p)
        \/ restoreCacheSync(p)
        \/ saveCache(p)
        \/ saveCacheSync(p)

Spec == Init /\ [][Next]_vars

(***************************************************************************)
(* One invocation, of any of the four functions, whose every collaborator  *)
(* call comes back: it returns or it raises. The inputs are those of Spec  *)
(* with a valid key or an invalid one, and one path or none.               *)
(***************************************************************************)
FairInput(a) ==
    /\ a.keys \in {<<K1>>, <<<<Run(",", 1)>>>>}
    /\ a.paths \in {[isNull |-> FALSE, list |-> <<>>],
                    [isNull |-> FALSE, list |-> <<"p1">>]}
    /\ a.customCompression \in {"", "none"}

restoreCache_fair(p) ==
    /\ inv[p].pc = "idle"
    /\ \E a \in {x \in RestoreArgs : FairInput(x)} : restoreCache_call(p, a)

restoreCacheSync_fair(p) ==
    /\ inv[p].pc = "idle"
    /\ \E a \in {x \in RestoreSyncArgs : FairInput(x)} :
         restoreCacheSync_call(p, a)

saveCache_fair(p) ==
    /\ inv[p].pc = "idle"
    /\ \E a \in {x \in SaveArgs : FairInput(x)} : saveCache_call(p, a)

saveCacheSync_fair(p) ==
    /\ inv[p].pc = "idle"
    /\ \E a \in {x \in SaveSyncArgs : FairInput(x)} : saveCacheSync_call(p, a)

NextFair ==
    \E p \in MainProcs :
        \/ restoreCache_fair(p) \/ restoreCache_steps(p)
        \/ restoreCacheSync_fair(p) \/ restoreCacheSync_steps(p)
        \/ saveCache_fair(p) \/ saveCache_steps(p)
        \/ saveCacheSync_fair(p) \/ saveCacheSync_steps(p)

SpecFair == Init /\ [][NextFair]_vars /\ WF_vars(NextFair)

(***************************************************************************)
(* One invocation against a remote store that is known: the keys K1, K2    *)
(* and K3 each have a stored entry or not.                                 *)
(***************************************************************************)
StoreKeys == {K1, K2, K3}

InitStore ==
    /\ inv = [p \in Procs |-> Idle]
    /\ dirs = {}
    /\ disk = [d \in DirIds |-> NoFile]
    /\ store \in {KnownStore(E) : E \in SUBSET StoreKeys}

SpecStore == InitStore /\ [][Next]_vars

(***************************************************************************)
(* Concurrent invocations: every process calls saveCache of the key K1,    *)
(* with the internal codec, or the first of them calls restoreCache of it  *)
(* instead, and their steps interleave. The store is known, and K1 has an  *)
(* entry in it or not.                                                     *)
(***************************************************************************)
ConcArgs ==
    [paths : {[isNull |-> FALSE, list |-> <<"p1">>]}, keys : {<<K1>>},
     lookupOnly : {FALSE}, customCompression : {""}, platform : {"linux"},
     isDebug : {FALSE}, existing : {{"p1"}}]

InitConc ==
    /\ inv = [p \in Procs |-> Idle]
    /\ dirs = {}
    /\ disk = [d \in DirIds |-> NoFile]
    /\ store \in {KnownStore({}), KnownStore({K1})}

saveCache_concurrent(p) ==
    /\ inv[p].pc = "idle"
    /\ \E a \in ConcArgs : saveCache_call(p, a)

restoreCache_concurrent(p) ==
    /\ inv[p].pc = "idle"
    /\ p \in MainProcs
    /\ \E a \in ConcArgs : restoreCache_call(p, a)

NextConc ==
    \E p \in Procs :
        \/ saveCache_concurrent(p)
        \/ saveCache_getCompressionMethod(p)
        \/ saveCache_resolvePaths(p)
        \/ saveCache_createTempDirectory(p)
        \/ saveCache_createTar(p)
        \/ saveCache_getArchiveFileSizeInBytes(p)
        \/ saveCache_saveCache(p)
        \/ saveCache_finally(p)
        \/ restoreCache_concurrent(p)
        \/ restoreCache_getCompressionMethod(p)
        \/ restoreCache_getCacheEntry(p)
        \/ restoreCache_createTempDirectory(p)
        \/ restoreCache_downloadCache(p)
        \/ restoreCache_getArchiveFileSizeInBytes(p)
        \/ restoreCache_extractTar(p)
        \/ restoreCache_finally(p)

SpecConc == InitConc /\ [][NextConc]_vars

(***************************************************************************)
(* Properties.                                                             *)
(***************************************************************************)
Called(p) == inv[p].fn # ""
Done(p) == inv[p].pc = "done"
Events(p) == Range(inv[p].trace)
Last(seq) == seq[Len(seq)]
DiskEmpty == dirs = {} /\ \A d \in DirIds : disk[d] = NoFile

\* the archive file of invocation p exists
ArchiveExists(p) ==
    inv[p].archivePath # NoPath /\ disk[inv[p].archivePath] # NoFile

\* the collaborator calls inside the try blocks of restore and of save
RestoreTrySteps ==
    {"getCacheEntry", "createTempDirectory", "downloadCache", "listTar",
     "getArchiveFileSizeInBytes", "getTarPath", "execSync", "extractTar",
     "getCacheEntrySync", "downloadCacheSync"}
SaveTrySteps ==
    {"getTarPath", "execSync", "createTar", "listTar",
     "getArchiveFileSizeInBytes", "saveCache", "saveCacheSync"}

\* invocation p had a call of `steps` raise an error of `names`
Raised(p, steps, names) ==
    \E ev \in Events(p) : ev.call \in steps /\ ev.res \in names

\* C1 (as stated): once a restoreCache or saveCache call has returned, its
\* temporary archive file does not exist on disk, whatever the outcome.
C1_AsStated ==
    \A p \in Procs :
        (inv[p].fn \in ArchiveFunctions /\ Done(p)) => ~ArchiveExists(p)

\* C1 (amended): the archive file of a restoreCache or saveCache call that has
\* returned exists only if the unlink of it, the last thing the call did,
\* failed; in every other case it does not exist.
C1_ArchiveGoneUnlessUnlinkFailed ==
    \A p \in Procs :
        (inv[p].fn \in ArchiveFunctions /\ Done(p) /\ ArchiveExists(p))
        => /\ inv[p].trace # <<>>
           /\ Last(inv[p].trace).call = "unlinkFile"
           /\ Last(inv[p].trace).res # "ok"
           /\ Last(inv[p].trace).arg = inv[p].archivePath

\* a restore whose download failed and left a part of the file, which the
\* cleanup removed
C1_Witness ==
    \E p \in Procs :
        /\ inv[p].fn = "restoreCache" /\ Done(p)
        /\ Raised(p, {"downloadCache"}, {PlainError})
        /\ Last(inv[p].trace) = Call("unlinkFile", "ok", inv[p].archivePath)
        /\ ~ArchiveExists(p)
        /\ inv[p].outcome = Returned(Undefined)

\* C2: in restoreCache and restoreCacheSync an error other than ValidationError
\* raised by the lookup, the temp directory creation, the download, the size
\* measurement or the extraction is caught: the call returns undefined.
C2_RestoreSwallowsErrors ==
    \A p \in Procs :
        (/\ inv[p].fn \in RestoreFunctions
         /\ Raised(p, RestoreTrySteps, ErrorNames \ {ValidationError}))
        => /\ inv[p].outcome.kind # "throw"
           /\ Done(p) => inv[p].outcome = Returned(Undefined)

\* a restore that returned undefined after its extraction raised
C2_Witness ==
    \E p \in Procs :
        /\ inv[p].fn = "restoreCache" /\ Done(p)
        /\ Raised(p, {"extractTar"}, {PlainError})
        /\ inv[p].outcome = Returned(Undefined)

HasComma(s) == \E i \in DOMAIN s : s[i][1] = "," /\ s[i][2] > 0
\* a key as the data model wants it: at most 512 characters, no comma
KeyAllowed(s) == StrLen(s) <= MaxKeyLength /\ ~HasComma(s)
\* the caller's path set is empty or absent
PathsEmpty(p) == inv[p].args.paths.isNull \/ inv[p].args.paths.list = <<>>
\* the call failed in validation, before any collaborator was called
ValidationFailed(p) ==
    /\ Done(p)
    /\ inv[p].outcome = Thrown(ValidationError)
    /\ inv[p].trace = <<>>
    /\ inv[p].archivePath = NoPath
\* the result of a pipeline in which nothing happened
Nothing(p) ==
    IF inv[p].fn \in RestoreFunctions THEN Returned(Undefined)
    ELSE Returned(Num(0 - 1))
TrySteps(p) ==
    IF inv[p].fn \in RestoreFunctions THEN RestoreTrySteps ELSE SaveTrySteps
AllSteps == RestoreTrySteps \cup SaveTrySteps \cup {"resolvePaths"}

\* C4 (as stated): the only errors that reach the caller are ValidationErrors,
\* those of path and key validation; every other error raised in a pipeline
\* is downgraded to undefined (restore) or -1 (save).
C4_AsStated ==
    \A p \in Procs :
        /\ (Done(p) /\ inv[p].outcome.kind = "throw")
           => inv[p].outcome.name = ValidationError
        /\ (Done(p) /\ Raised(p, AllSteps, ErrorNames \ {ValidationError}))
           => inv[p].outcome = Nothing(p)

\* C4 (amended): an error reaches the caller only if it is a ValidationError
\* of path or key validation, an error named ValidationError that a
\* collaborator raised inside the try block, or, in save, an error raised
\* before the try block: the Error for no resolved path, a failure of
\* resolvePaths or (saveCache) of createTempDirectory.  Every error of another
\* name raised inside a try block is downgraded to undefined or -1.
C4_ErrorsReachingCaller ==
    \A p \in Procs :
        /\ (Done(p) /\ inv[p].outcome.kind = "throw") =>
             \/ ValidationFailed(p)
             \/ /\ inv[p].outcome.name = ValidationError
                /\ Raised(p, TrySteps(p), {ValidationError})
             \/ /\ inv[p].fn \in SaveFunctions
                /\ inv[p].outcome.name = PlainError
                /\ inv[p].trace # <<>>
                /\ \/ Last(inv[p].trace) = Call("resolvePaths", PlainError, 0)
                   \/ /\ Last(inv[p].trace) = Call("resolvePaths", "ok", 0)
                      /\ inv[p].cachePaths = <<>>
                   \/ /\ inv[p].fn = "saveCache"
                      /\ Last(inv[p].trace)
                           = Call("createTempDirectory", PlainError, 0)
        /\ (Done(p) /\ Raised(p, TrySteps(p), ErrorNames \ {ValidationError}))
           => inv[p].outcome = Nothing(p)

\* a saveCache that threw the error of createTempDirectory to its caller
C4_Witness ==
    \E p \in Procs :
        /\ inv[p].fn = "saveCache" /\ Done(p)
        /\ inv[p].outcome = Thrown(PlainError)
        /\ Last(inv[p].trace) = Call("createTempDirectory", PlainError, 0)

\* the input of the call is invalid: an empty path set, an invalid key, or
\* (restoreCache) more than 10 keys
InvalidInput(p) ==
    \/ PathsEmpty(p)
    \/ inv[p].fn = "restoreCache" /\ Len(inv[p].args.keys) > MaxKeys
    \/ \E i \in DOMAIN inv[p].args.keys : ~KeyAllowed(inv[p].args.keys[i])

\* C5: a restoreCache with more than 10 keys, and any save or restore with an
\* invalid key or an empty path set, fails with ValidationError before any
\* lookup, upload, download, temp directory creation, path resolution or
\* archiver process.
C5_ValidationPrecedesIO ==
    \A p \in Procs :
        (Called(p) /\ InvalidInput(p)) => (ValidationFailed(p) /\ DiskEmpty)

\* a restoreCache with 11 valid keys and a path, rejected
C5_Witness ==
    \E p \in Procs :
        /\ inv[p].fn = "restoreCache"
        /\ Len(inv[p].args.keys) = MaxKeys + 1
        /\ \A i \in DOMAIN inv[p].args.keys : KeyAllowed(inv[p].args.keys[i])
        /\ ~PathsEmpty(p)
        /\ ValidationFailed(p)

\* C6: key validation accepts a key if and only if it has at most 512
\* characters and no comma: checkKey throws for every other key, and a call
\* with a valid path set and key count passes validation exactly when all its
\* keys are such.
C6_KeyAcceptedIff ==
    \A p \in Procs :
        Called(p) =>
          /\ \A i \in DOMAIN inv[p].args.keys :
               (checkKey(inv[p].args.keys[i]) = "ok")
                 <=> KeyAllowed(inv[p].args.keys[i])
          /\ \A i \in DOMAIN inv[p].args.keys :
               (checkKey(inv[p].args.keys[i]) = ValidationError)
                 <=> ~KeyAllowed(inv[p].args.keys[i])
          /\ (/\ ~PathsEmpty(p)
              /\ inv[p].fn = "restoreCache" => Len(inv[p].args.keys) <= MaxKeys)
             => (ValidationFailed(p)
                   <=> \E i \in DOMAIN inv[p].args.keys :
                          ~KeyAllowed(inv[p].args.keys[i]))

\* a save whose key of exactly 512 characters passed validation
C6_Witness ==
    \E p \in Procs :
        /\ inv[p].fn = "saveCacheSync"
        /\ inv[p].args.keys = << <<Run("a", MaxKeyLength)>> >>
        /\ inv[p].trace # <<>>

\* the calls that make a temp directory or an archive, or go to the remote store
CreatingOrRemoteSteps ==
    {"createTempDirectory", "getTarPath", "execSync", "createTar", "listTar",
     "getArchiveFileSizeInBytes", "saveCache", "saveCacheSync", "unlinkFile"}

\* C7: a restore with an empty path set fails with ValidationError; a save
\* whose non-empty path set resolves to no existing path fails with an error
\* that is not a ValidationError, thrown to the caller before any temp
\* directory or archive is made and before any remote call.
C7_EmptyPaths ==
    \A p \in Procs :
        /\ (inv[p].fn \in RestoreFunctions /\ PathsEmpty(p))
           => ValidationFailed(p)
        /\ (/\ inv[p].fn \in SaveFunctions
            /\ ~PathsEmpty(p)
            /\ Call("resolvePaths", "ok", 0) \in Events(p)
            /\ inv[p].cachePaths = <<>>)
           => /\ Done(p)
              /\ inv[p].outcome = Thrown(PlainError)
              /\ inv[p].outcome.name # ValidationError
              /\ \A ev \in Events(p) : ev.call \notin CreatingOrRemoteSteps
              /\ inv[p].archivePath = NoPath
              /\ DiskEmpty

\* a saveCache of two paths, neither existing, that threw the Error
C7_Witness ==
    \E p \in Procs :
        /\ inv[p].fn = "saveCache" /\ Done(p)
        /\ Len(inv[p].args.paths.list) = 2
        /\ Call("resolvePaths", "ok", 0) \in Events(p)
        /\ inv[p].cachePaths = <<>>
        /\ inv[p].outcome = Thrown(PlainError)

\* C8 (as stated): an empty caller path set is a ValidationError for restore
\* but a soft failure for save: such a save raises no ValidationError.
C8_AsStated ==
    \A p \in Procs :
        /\ (inv[p].fn \in RestoreFunctions /\ PathsEmpty(p))
           => ValidationFailed(p)
        /\ (inv[p].fn \in SaveFunctions /\ PathsEmpty(p))
           => inv[p].outcome # Thrown(ValidationError)

\* C8 (amended): an empty caller path set is a ValidationError for restore
\* and for save alike, thrown before anything else is done.
C8_EmptyPathsFatalForAll ==
    \A p \in Procs :
        (Called(p) /\ PathsEmpty(p)) => ValidationFailed(p)

\* a saveCache with an empty path list and a valid key, rejected
C8_Witness ==
    \E p \in Procs :
        /\ inv[p].fn = "saveCache"
        /\ ~inv[p].args.paths.isNull
        /\ inv[p].args.paths.list = <<>>
        /\ KeyAllowed(inv[p].args.keys[1])
        /\ ValidationFailed(p)

\* the calls of restore that make, fill, read or extract a local archive
RestoreTransferSteps ==
    {"createTempDirectory", "downloadCache", "downloadCacheSync", "listTar",
     "getArchiveFileSizeInBytes", "getTarPath", "execSync", "extractTar"}

\* the lookup of invocation p returned
LookupReturned(p) ==
    \E ev \in Events(p) :
        ev.call \in {"getCacheEntry", "getCacheEntrySync"} /\ ev.res = "ok"

\* C9: a lookup-only restore that finds an entry returns the matched key; a
\* lookup-only restore never makes a temp directory or archive file, never
\* downloads or extracts, and never deletes a local archive file.
C9_LookupOnly ==
    \A p \in Procs :
        (inv[p].fn \in RestoreFunctions /\ inv[p].args.lookupOnly) =>
          /\ \A ev \in Events(p) : ev.call \notin RestoreTransferSteps
          /\ \A ev \in Events(p) : ev.call = "unlinkFile" => ev.res # "ok"
          /\ inv[p].archivePath = NoPath
          /\ DiskEmpty
          /\ (Done(p) /\ LookupReturned(p) /\ inv[p].cacheEntry.archiveLocation)
             => inv[p].outcome = Returned(Str(inv[p].cacheEntry.cacheKey))

\* a lookup-only restoreCache that returned the matched key K2
C9_Witness ==
    \E p \in Procs :
        /\ inv[p].fn = "restoreCache" /\ Done(p)
        /\ inv[p].args.lookupOnly
        /\ inv[p].cacheEntry = Entry(TRUE, K2)
        /\ inv[p].outcome = Returned(Str(K2))

\* C10: when the lookup returns no entry, or one without archiveLocation,
\* restore returns undefined without raising, and attempts no download, sync
\* transfer, extraction or temp file creation.
C10_MissReturnsUndefined ==
    \A p \in Procs :
        (/\ inv[p].fn \in RestoreFunctions
         /\ LookupReturned(p)
         /\ ~inv[p].cacheEntry.archiveLocation)
        => /\ \A ev \in Events(p) : ev.call \notin RestoreTransferSteps
           /\ inv[p].archivePath = NoPath
           /\ DiskEmpty
           /\ inv[p].outcome.kind # "throw"
           /\ Done(p) => inv[p].outcome = Returned(Undefined)

\* a restoreCache, not lookup-only, whose entry had no archiveLocation
C10_Witness ==
    \E p \in Procs :
        /\ inv[p].fn = "restoreCache" /\ Done(p)
        /\ ~inv[p].args.lookupOnly
        /\ inv[p].cacheEntry.found
        /\ ~inv[p].cacheEntry.archiveLocation
        /\ inv[p].outcome = Returned(Undefined)

\* the first key of the list, in order, that is among `entries`; <<>> if none
RECURSIVE FirstStored(_, _)
FirstStored(keys, entries) ==
    IF keys = <<>> THEN <<>>
    ELSE IF Head(keys) \in entries THEN Head(keys)
    ELSE FirstStored(Tail(keys), entries)

\* C11: restoreCache gives the lookup the list [primaryKey] followed by the
\* restoreKeys in the caller's order and, when it returns a key, returns the
\* cacheKey of the entry the lookup reported; against a first-match-wins store
\* that key is the first key of the list, in order, with a stored entry.
\* restoreCacheSync looks up the primary key alone.
C11_FallbackOrdering ==
    \A p \in Procs :
        /\ (/\ inv[p].fn = "restoreCache"
            /\ Raised(p, {"getCacheEntry"}, {"ok"} \cup ErrorNames))
           => inv[p].lookupKeys = inv[p].args.keys
        /\ (/\ inv[p].fn = "restoreCacheSync"
            /\ Raised(p, {"getCacheEntrySync"}, {"ok"} \cup ErrorNames))
           => inv[p].lookupKeys = <<inv[p].args.keys[1]>>
        /\ (/\ inv[p].fn \in RestoreFunctions
            /\ Done(p)
            /\ inv[p].outcome.kind = "return"
            /\ inv[p].outcome # Returned(Undefined))
           => /\ LookupReturned(p)
              /\ inv[p].outcome = Returned(Str(inv[p].cacheEntry.cacheKey))
              /\ inv[p].cacheEntry.cacheKey
                   = FirstStored(inv[p].lookupKeys, store.entries)
        /\ (inv[p].fn \in RestoreFunctions /\ LookupReturned(p))
           => inv[p].cacheEntry.found
                = (FirstStored(inv[p].lookupKeys, store.entries) # <<>>)

\* a restoreCache of [K1, K2, K3] against a store where only K2 has an entry
\* returned K2
C11_Witness ==
    \E p \in Procs :
        /\ inv[p].fn = "restoreCache" /\ Done(p)
        /\ inv[p].args.keys = <<K1, K2, K3>>
        /\ store.entries = {K2}
        /\ inv[p].lookupKeys = <<K1, K2, K3>>
        /\ inv[p].outcome = Returned(Str(K2))

\* invocation p was refused the reservation of its key
Rejected(p) == Raised(p, {"saveCache"}, {ReserveCacheError})

\* at most one of the saves of a key returns 1, and a rejected save that is
\* over returned -1
OneSaveWins ==
    /\ \A p, q \in Procs :
          (/\ p # q
           /\ inv[p].fn = "saveCache" /\ inv[q].fn = "saveCache"
           /\ inv[p].args.keys = inv[q].args.keys
           /\ inv[p].outcome = Returned(Num(1)))
          => inv[q].outcome # Returned(Num(1))
    /\ \A p \in Procs :
          (inv[p].fn = "saveCache" /\ Rejected(p))
          => /\ inv[p].outcome.kind # "throw"
             /\ Done(p) => inv[p].outcome = Returned(Num(0 - 1))

\* C12 (as stated): of the concurrent saves of a key against a store that
\* grants its reservation once, at most one returns 1, every rejected one
\* returns -1 without raising, and the archive of every saver is deleted when
\* its call has returned.
C12_AsStated ==
    /\ OneSaveWins
    /\ \A p \in Procs :
          (inv[p].fn = "saveCache" /\ Done(p)) => ~ArchiveExists(p)

\* C12 (amended): of the concurrent saves of a key against a store that grants
\* its reservation once, at most one returns 1, every rejected one returns -1
\* without raising, and every saver that made an archive path ends with the
\* unlink of its own archive: the archive is gone unless that unlink failed.
C12_ConcurrentSaves ==
    /\ OneSaveWins
    /\ \A p \in Procs :
          (inv[p].fn = "saveCache" /\ Done(p) /\ inv[p].archivePath # NoPath)
          => /\ Last(inv[p].trace).call = "unlinkFile"
             /\ Last(inv[p].trace).arg = inv[p].archivePath
             /\ ArchiveExists(p) => Last(inv[p].trace).res # "ok"

\* two concurrent saves of K1 are over: one returned 1, the other was rejected
\* and returned -1, and both deleted their archive
C12_Witness ==
    \E p, q \in Procs :
        /\ p # q
        /\ inv[p].fn = "saveCache" /\ inv[q].fn = "saveCache"
        /\ Done(p) /\ Done(q)
        /\ inv[p].outcome = Returned(Num(1))
        /\ Rejected(q)
        /\ inv[q].outcome = Returned(Num(0 - 1))
        /\ Last(inv[p].trace) = Call("unlinkFile", "ok", inv[p].archivePath)
        /\ Last(inv[q].trace) = Call("unlinkFile", "ok", inv[q].archivePath)
        /\ inv[p].archivePath # inv[q].archivePath

\* the collaborator calls that are given the archive path
PathSteps ==
    {"createTempDirectory", "downloadCache", "createTar", "listTar",
     "getArchiveFileSizeInBytes", "execSync", "extractTar", "unlinkFile"}

\* the invocations that take the step
Actors == {p \in Procs : inv'[p] # inv[p]}

\* the archive paths of the invocations are distinct, every call of an
\* invocation that is given a path is given its own, and a file on disk
\* was written by the invocation that owns its path
OwnPaths ==
    /\ \A p, q \in Procs :
          (p # q /\ inv[p].archivePath # NoPath)
          => inv[q].archivePath # inv[p].archivePath
    /\ \A p \in Procs : \A ev \in Events(p) :
          (ev.call \in PathSteps /\ ev.arg # NoPath)
          => ev.arg = inv[p].archivePath
    /\ \A p \in Procs : \A ev \in Events(p) :
          (ev.call = "unlinkFile" /\ ev.arg = NoPath) => ev.res # "ok"
    /\ \A d \in DirIds :
          disk[d] # NoFile
          => \E p \in Procs :
               /\ inv[p].archivePath = d
               /\ \E ev \in Events(p) :
                    ev.call \in {"downloadCache", "createTar"} /\ ev.arg = d

\* a step that makes a directory makes one that did not exist and gives it to
\* the invocation that takes the step, and a step that writes or deletes a
\* file is taken by the invocation that owns its path
OwnSteps ==
    /\ \A d \in dirs' \ dirs :
          /\ disk[d] = NoFile
          /\ \A p \in Procs : inv[p].archivePath # d
          /\ \A p \in Actors : inv'[p].archivePath = d
    /\ \A d \in DirIds :
          disk'[d] # disk[d] => \A p \in Actors : inv[p].archivePath = d
    /\ \A p \in Procs :
          inv[p].archivePath # NoPath
          => inv'[p].archivePath = inv[p].archivePath

\* C13: under every interleaving of concurrent saves and restores, the temp
\* directory and the archive file of an invocation are its own: no invocation
\* makes, writes, reads or deletes the archive path of another, and the
\* cleanup of an invocation that made no archive deletes nothing.
C13_ExclusiveOwnership == []OwnPaths /\ [][OwnSteps]_vars

\* a restore and a save ran side by side, each with an archive file of its
\* own: the restore is over and deleted its file, and that of the save, which
\* is not over, is still on disk
C13_Witness ==
    \E p, q \in Procs :
        /\ inv[p].fn = "restoreCache" /\ inv[q].fn = "saveCache"
        /\ Done(p)
        /\ Called(q) /\ ~Done(q)
        /\ Last(inv[p].trace) = Call("unlinkFile", "ok", inv[p].archivePath)
        /\ ~ArchiveExists(p)
        /\ ArchiveExists(q)
        /\ \E ev \in Events(q) : ev.call = "createTar" /\ ev.res = "ok"

\* the calls of save that build the archive
BuildSteps == {"getTarPath", "execSync", "createTar"}

\* the trace of invocation p has the calls e1, e2, e3 in this order
InOrder(p, e1, e2, e3) ==
    \E i, j, k \in DOMAIN inv[p].trace :
        /\ i < j /\ j < k
        /\ inv[p].trace[i] = e1
        /\ inv[p].trace[j] = e2
        /\ inv[p].trace[k] = e3

InternalCodecSteps == {"extractTar", "createTar"}
ExternalSteps == {"getTarPath", "execSync"}

\* invocation p is over and came to the extraction or the build of its archive
CameToCodec(p) ==
    /\ Done(p)
    /\ \/ /\ inv[p].fn = "restoreCache"
          /\ Raised(p, {"getArchiveFileSizeInBytes"}, {"ok"})
       \/ /\ inv[p].fn = "saveCache"
          /\ Raised(p, {"createTempDirectory"}, {"ok"})

\* C15 (as stated): when customCompression is omitted or is "none", restore
\* extracts and save creates the archive through the internal codec
\* (extractTar / createTar), and no external archiver process is invoked.
C15_AsStated ==
    \A p \in Procs :
        (inv[p].fn \in ArchiveFunctions /\ inv[p].args.customCompression = "none")
        => /\ \A ev \in Events(p) : ev.call \notin ExternalSteps
           /\ CameToCodec(p) => Raised(p, InternalCodecSteps, {"ok"} \cup ErrorNames)

\* C15 (amended): restore extracts and save creates the archive through the
\* internal codec exactly when customCompression is the empty string; for
\* every other value, the default "none" of an omitted argument included, an
\* external archiver process is run, on win32 after getTarPath, and the
\* internal codec is not called.
C15_CodecDispatch ==
    \A p \in Procs :
        inv[p].fn \in ArchiveFunctions =>
          /\ Truthy(inv[p].args.customCompression)
             => /\ \A ev \in Events(p) : ev.call \notin InternalCodecSteps
                /\ CameToCodec(p)
                   => Raised(p, ExternalSteps, {"ok"} \cup ErrorNames)
                /\ Raised(p, {"getTarPath"}, {"ok"} \cup ErrorNames)
                   <=> (inv[p].args.platform = "win32"
                          /\ Raised(p, ExternalSteps, {"ok"} \cup ErrorNames))
          /\ ~Truthy(inv[p].args.customCompression)
             => /\ \A ev \in Events(p) : ev.call \notin ExternalSteps
                /\ CameToCodec(p)
                   => Raised(p, InternalCodecSteps, {"ok"} \cup ErrorNames)

\* a restoreCache with the default customCompression "none" extracted its
\* archive with an external archiver process and returned the matched key
C15_Witness ==
    \E p \in Procs :
        /\ inv[p].fn = "restoreCache" /\ Done(p)
        /\ inv[p].args.customCompression = "none"
        /\ Call("execSync", "ok", inv[p].archivePath) \in Events(p)
        /\ inv[p].outcome = Returned(Str(inv[p].cacheEntry.cacheKey))

\* the calls of restoreCache that extract the archive
ExtractSteps == {"getTarPath", "execSync", "extractTar"}

\* invocation p returned a key
ReturnedKey(p) ==
    /\ Done(p)
    /\ inv[p].outcome.kind = "return"
    /\ inv[p].outcome # Returned(Undefined)

AtCleanup(p) == inv[p].pc \in {"r200", "s385"}
CleanedUp(p) ==
    Done(p) /\ inv[p].trace # <<>> /\ Last(inv[p].trace).call = "unlinkFile"

\* C17: a failure of the unlink in the cleanup step never changes the outcome:
\* what the call returns or raises was settled by try/catch before the unlink
\* and is the same whether the unlink succeeds or fails, and the unlink's own
\* failure is never raised.
C17_UnlinkFailureIgnored ==
    \A p \in Procs :
        /\ AtCleanup(p)
           => /\ inv[p].completion # Running
              /\ inv[p].outcome = Running
        /\ CleanedUp(p)
           => /\ inv[p].outcome = inv[p].completion
              /\ inv[p].outcome.kind = "throw"
                 => Raised(p, TrySteps(p), {inv[p].outcome.name})

\* a restoreCache returned the matched key although the unlink of its archive
\* failed
C17_Witness ==
    \E p \in Procs :
        /\ inv[p].fn = "restoreCache" /\ Done(p)
        /\ ArchiveExists(p)
        /\ Last(inv[p].trace)
             = Call("unlinkFile", PlainError, inv[p].archivePath)
        /\ inv[p].outcome = Returned(Str(inv[p].cacheEntry.cacheKey))

\* the ways a restore may end
HitRestored(p) ==
    /\ ReturnedKey(p)
    /\ inv[p].outcome = Returned(Str(inv[p].cacheEntry.cacheKey))
    /\ Raised(p, {"downloadCache", "downloadCacheSync"}, {"ok"})
HitLookupOnly(p) ==
    /\ ReturnedKey(p)
    /\ inv[p].outcome = Returned(Str(inv[p].cacheEntry.cacheKey))
    /\ \A ev \in Events(p) : ev.call \notin RestoreTransferSteps
Miss(p) ==
    /\ inv[p].outcome = Returned(Undefined)
    /\ ~Raised(p, RestoreTrySteps, ErrorNames)
    /\ LookupReturned(p)
    /\ ~inv[p].cacheEntry.archiveLocation
SuppressedError(p) ==
    /\ inv[p].outcome = Returned(Undefined)
    /\ Raised(p, RestoreTrySteps, ErrorNames \ {ValidationError})
FatalValidationError(p) == inv[p].outcome = Thrown(ValidationError)

\* how many of the five ways the restore of invocation p ended in
RestoreEnds(p) ==
    Cardinality({i \in 1..5 :
        \/ i = 1 /\ HitRestored(p)
        \/ i = 2 /\ HitLookupOnly(p)
        \/ i = 3 /\ Miss(p)
        \/ i = 4 /\ SuppressedError(p)
        \/ i = 5 /\ FatalValidationError(p)})

\* an invocation that is over ended in one of the ways of its function
EndsClassified ==
    \A p \in Procs :
        Done(p) =>
          /\ inv[p].fn \in RestoreFunctions => RestoreEnds(p) = 1
          /\ inv[p].fn \in SaveFunctions
             => \/ inv[p].outcome \in {Returned(Num(1)), Returned(Num(0 - 1))}
                \/ inv[p].outcome.kind = "throw"

\* invocation p entered its try block
EnteredTry(p) ==
    \/ inv[p].fn = "restoreCache"
         /\ inv[p].pc \notin {"idle", "r101"} /\ ~ValidationFailed(p)
    \/ inv[p].fn = "saveCache" /\ Raised(p, {"createTempDirectory"}, {"ok"})

\* every invocation that is called comes to its end
Terminates == \A p \in Procs : Called(p) ~> Done(p)

\* C18 (as stated), the state at termination: a restore ends in exactly one of
\* HIT-RESTORED, HIT-LOOKUP-ONLY, MISS, SUPPRESSED-ERROR and a fatal
\* ValidationError, a save ends with 1, -1 or a fatal error, and in archive
\* mode the cleanup step has run before the end.
C18_AsStated ==
    /\ EndsClassified
    /\ \A p \in Procs :
          (Done(p) /\ inv[p].fn \in ArchiveFunctions) => CleanedUp(p)

\* C18 (amended): when every collaborator call returns or raises, every
\* invocation comes to its end; a restore ends in exactly one of HIT-RESTORED,
\* HIT-LOOKUP-ONLY, MISS, SUPPRESSED-ERROR and a fatal ValidationError, and a
\* save ends with 1, -1 or a fatal error; in archive mode the cleanup step
\* has run before the end of every invocation that entered its try block, and
\* of no other.
C18_Termination ==
    /\ Terminates
    /\ [](/\ EndsClassified
          /\ \A p \in Procs :
                (Done(p) /\ inv[p].fn \in ArchiveFunctions)
                => (CleanedUp(p) <=> EnteredTry(p)))

\* a saveCache ended with a fatal error, that of createTempDirectory, and its
\* cleanup step never ran
C18_Witness ==
    \E p \in Procs :
        /\ inv[p].fn = "saveCache" /\ Done(p)
        /\ inv[p].outcome = Thrown(PlainError)
        /\ Last(inv[p].trace) = Call("createTempDirectory", PlainError, 0)

SyncFunctions == {"restoreCacheSync", "saveCacheSync"}

\* the collaborator calls the sync functions may make: the path resolution of
\* save, and the sync lookup and transfers of the remote client
SyncSteps ==
    {"resolvePaths", "getCacheEntrySync", "downloadCacheSync", "saveCacheSync"}

\* C19: saveCacheSync and restoreCacheSync leave the local archive state
\* alone: they make no temp directory and no archive file, call neither the
\* internal codec nor an external archiver, and delete no archive; their
\* only transfer steps are the sync lookup and transfers of the remote client.
C19_SyncFrame ==
    \A p \in Procs :
        inv[p].fn \in SyncFunctions =>
          /\ \A ev \in Events(p) : ev.call \in SyncSteps
          /\ inv[p].archivePath = NoPath
          /\ DiskEmpty
          /\ inv[p].fn = "restoreCacheSync"
             => \A ev \in Events(p) : ev.call # "resolvePaths"

\* a restoreCacheSync returned the matched key after its sync transfer
C19_Witness ==
    \E p \in Procs :
        /\ inv[p].fn = "restoreCacheSync" /\ Done(p)
        /\ Call("downloadCacheSync", "ok", 0) \in Events(p)
        /\ inv[p].outcome = Returned(Str(inv[p].cacheEntry.cacheKey))
        /\ DiskEmpty

\* the calls of createTempDirectory that invocation p made
TempDirectoryCalls(p) ==
    {i \in DOMAIN inv[p].trace : inv[p].trace[i].call = "createTempDirectory"}

\* C20: an archive-mode invocation makes at most one temp directory, and only
\* after its validation passed: saveCache after path resolution gave a path,
\* restoreCache after a lookup hit with an archiveLocation and not in
\* lookup-only mode. The cleanup unlinks the archive file alone: the
\* directory is never removed, and still exists when the call has returned.
C20_TempDirectory ==
    /\ \A p \in Procs :
          inv[p].fn \in ArchiveFunctions =>
            /\ Cardinality(TempDirectoryCalls(p)) <= 1
            /\ \A i \in TempDirectoryCalls(p) :
                  /\ ~ValidationFailed(p)
                  /\ inv[p].fn = "saveCache"
                     => /\ \E j \in 1..(i - 1) :
                             inv[p].trace[j] = Call("resolvePaths", "ok", 0)
                        /\ Len(inv[p].cachePaths) >= 1
                  /\ inv[p].fn = "restoreCache"
                     => /\ \E j \in 1..(i - 1) :
                             inv[p].trace[j] = Call("getCacheEntry", "ok", 0)
                        /\ inv[p].cacheEntry.archiveLocation
                        /\ ~inv[p].args.lookupOnly
            /\ inv[p].archivePath # NoPath
               <=> Raised(p, {"createTempDirectory"}, {"ok"})
            /\ inv[p].archivePath # NoPath => inv[p].archivePath \in dirs
    /\ dirs = {inv[p].archivePath : p \in Procs} \ {NoPath}

\* a saveCache returned 1 and deleted its archive file, and the temp directory
\* it made is still there
C20_Witness ==
    \E p \in Procs :
        /\ inv[p].fn = "saveCache" /\ Done(p)
        /\ inv[p].outcome = Returned(Num(1))
        /\ Call("unlinkFile", "ok", inv[p].archivePath) \in Events(p)
        /\ inv[p].archivePath \in dirs
        /\ disk[inv[p].archivePath] = NoFile

====
